---- MODULE Spec2Model ----
(***************************************************************************)
(* SDG classification cascade of rajifPy/nlp_uas.                          *)
(*                                                                         *)
(* Three entry points are modelled:                                        *)
(*   "index" : api/index.py   extract -> predict_sdgs_with_hf              *)
(*                            (remote tier, then fallback_prediction)      *)
(*   "app"   : app.py         upload_file -> predict_with_hf_api, then     *)
(*                            ModelLoader.predict_sdgs (local model, then  *)
(*                            ModelLoader._fallback_prediction)            *)
(*   "predictor" : utils/huggingface_predictor.py                          *)
(*                            HuggingFacePredictor.predict_sdgs            *)
(*                                                                         *)
(* Confidences are kept in hundredths (0.05 is 5, 0.15 is 15, 1.0 is 100). *)
(* Texts, labels and keywords are real strings; str.lower, the substring   *)
(* test and str.split are computed character by character.                 *)
(***************************************************************************)
EXTENDS Integers, Sequences, FiniteSets, TLC

(***************************************************************************)
(* Bounds of the model                                                     *)
(***************************************************************************)
MaxTopK == 3
MaxLabels == 2
\* chunks the model file is streamed in by download_model
MaxChunks == 2

(***************************************************************************)
(* Program constants                                                       *)
(***************************************************************************)
NUM_SDGS == 17
MIN_CONF == 5
SCORE_PER_KEYWORD == 15
INDEX_CAP == 85
LOADER_CAP == 80
MAX_KEYWORDS == 5
STRONG_BAND == 70
MODERATE_BAND == 40
EXPLAIN_KEYWORDS == 3

SDG_IDS == 1..NUM_SDGS

(***************************************************************************)
(* Generic sequence helpers (Python built-ins)                             *)
(***************************************************************************)
Min(a, b) == IF a <= b THEN a ELSE b

\* seq[:n]
Take(seq, n) == SubSeq(seq, 1, Min(n, Len(seq)))

\* sorted(items, key=lambda x: x[1], reverse=True) for a list of pairs.
\* Python's sort is stable, so the result lists the pairs by descending
\* second component and, among equal ones, in their input order: the pairs
\* with the largest key in input order, then those with the next key, etc.
RECURSIVE SortedByKey(_, _)
SortedByKey(items, keys) ==
    IF keys = {} THEN <<>>
    ELSE LET m == CHOOSE x \in keys : \A y \in keys : y <= x
             HasKey(item) == item[2] = m
         IN  SelectSeq(items, HasKey) \o SortedByKey(items, keys \ {m})

SortedDesc(items) == SortedByKey(items, {items[i][2] : i \in DOMAIN items})

(***************************************************************************)
(* String helpers (Python str methods)                                     *)
(***************************************************************************)
\* the letters str.lower() changes
UpperToLower ==
    "A" :> "a" @@ "B" :> "b" @@ "C" :> "c" @@ "D" :> "d" @@ "E" :> "e" @@
    "F" :> "f" @@ "G" :> "g" @@ "H" :> "h" @@ "I" :> "i" @@ "J" :> "j" @@
    "K" :> "k" @@ "L" :> "l" @@ "M" :> "m" @@ "N" :> "n" @@ "O" :> "o" @@
    "P" :> "p" @@ "Q" :> "q" @@ "R" :> "r" @@ "S" :> "s" @@ "T" :> "t" @@
    "U" :> "u" @@ "V" :> "v" @@ "W" :> "w" @@ "X" :> "x" @@ "Y" :> "y" @@
    "Z" :> "z"

UpperLetters == DOMAIN UpperToLower

LowerChar(c) == IF c \in UpperLetters THEN UpperToLower[c] ELSE c

\* s holds a character str.lower() changes
HasUpper(s) == \E i \in 1..Len(s) : SubSeq(s, i, i) \in UpperLetters

\* str.lower(): character by character, computed half by half; a part
\* without a capital is its own lowering
RECURSIVE Lower(_)
Lower(s) ==
    IF ~HasUpper(s) THEN s
    ELSE IF Len(s) = 1 THEN LowerChar(s)
    ELSE LET h == Len(s) \div 2
         IN  Lower(SubSeq(s, 1, h)) \o Lower(SubSeq(s, h + 1, Len(s)))

\* characters the class [a-zA-Z] of re matches
Letters == DOMAIN UpperToLower \cup {UpperToLower[c] : c \in DOMAIN UpperToLower}

\* characters the class \s of re matches, as far as the texts here hold them
Whitespace == {" "}

\* re.sub(r'[^a-zA-Z\s]', '', s): character by character, computed half by half
RECURSIVE StripNonLetters(_)
StripNonLetters(s) ==
    IF Len(s) = 0 THEN ""
    ELSE IF Len(s) = 1 THEN (IF s \in Letters \cup Whitespace THEN s ELSE "")
    ELSE LET h == Len(s) \div 2
         IN  StripNonLetters(SubSeq(s, 1, h)) \o StripNonLetters(SubSeq(s, h + 1, Len(s)))

\* re.sub(r'\s+', ' ', s): every run of whitespace becomes one space.  Computed
\* half by half: a run that spans the two halves has left one space at the
\* end of the first and one at the start of the second.
RECURSIVE CollapseWhitespace(_)
CollapseWhitespace(s) ==
    IF Len(s) = 0 THEN ""
    ELSE IF Len(s) = 1 THEN (IF s \in Whitespace THEN " " ELSE s)
    ELSE LET h == Len(s) \div 2
             a == CollapseWhitespace(SubSeq(s, 1, h))
             b == CollapseWhitespace(SubSeq(s, h + 1, Len(s)))
         IN  IF SubSeq(a, Len(a), Len(a)) = " " /\ SubSeq(b, 1, 1) = " "
             THEN a \o SubSeq(b, 2, Len(b))
             ELSE a \o b

\* str.strip()
RECURSIVE Strip(_)
Strip(s) ==
    IF Len(s) = 0 THEN ""
    ELSE IF SubSeq(s, 1, 1) \in Whitespace THEN Strip(SubSeq(s, 2, Len(s)))
    ELSE IF SubSeq(s, Len(s), Len(s)) \in Whitespace THEN Strip(SubSeq(s, 1, Len(s) - 1))
    ELSE s

\* s * n
RECURSIVE Repeat(_, _)
Repeat(s, n) == IF n = 0 THEN "" ELSE s \o Repeat(s, n - 1)

\* sub in s
Contains(s, sub) ==
    \E i \in 1..(Len(s) - Len(sub) + 1) : SubSeq(s, i, i + Len(sub) - 1) = sub

\* s.find(sub) + 1, or 0 when sub does not occur
Find(s, sub) ==
    IF Contains(s, sub)
    THEN CHOOSE i \in 1..(Len(s) - Len(sub) + 1) :
            /\ SubSeq(s, i, i + Len(sub) - 1) = sub
            /\ \A j \in 1..(i - 1) : SubSeq(s, j, j + Len(sub) - 1) # sub
    ELSE 0

\* s.split(' - ')[0]
LeadingSegment(s) ==
    IF Contains(s, " - ") THEN SubSeq(s, 1, Find(s, " - ") - 1) ELSE s

\* ', '.join(seq)
RECURSIVE Join(_)
Join(seq) ==
    IF seq = <<>> THEN ""
    ELSE IF Len(seq) = 1 THEN seq[1]
    ELSE seq[1] \o ", " \o Join(Tail(seq))

\* f"{x:.2f}" of a value given in hundredths
Fmt2f(c) ==
    ToString(c \div 100) \o "." \o ToString((c % 100) \div 10) \o ToString(c % 10)

\* f"{x:.2%}" of a value given in hundredths
Fmt2Pct(c) == ToString(c) \o ".00%"

\* f"{x:.1%}" of a value given in hundredths
Fmt1Pct(c) == ToString(c) \o ".0%"

(***************************************************************************)
(* Label and keyword tables                                                *)
(***************************************************************************)
\* api/index.py SDG_LABELS
INDEX_SDG_LABELS == <<
    "No Poverty - ending poverty in all its forms",
    "Zero Hunger - ending hunger and promoting sustainable agriculture",
    "Good Health and Well-being - ensuring healthy lives and promoting well-being",
    "Quality Education - ensuring inclusive and equitable quality education",
    "Gender Equality - achieving gender equality and empowering women and girls",
    "Clean Water and Sanitation - ensuring availability of water and sanitation",
    "Affordable and Clean Energy - ensuring access to affordable and clean energy",
    "Decent Work and Economic Growth - promoting sustained economic growth and decent work",
    "Industry Innovation and Infrastructure - building resilient infrastructure and fostering innovation",
    "Reduced Inequality - reducing inequality within and among countries",
    "Sustainable Cities and Communities - making cities and human settlements sustainable",
    "Responsible Consumption and Production - ensuring sustainable consumption and production",
    "Climate Action - taking urgent action to combat climate change",
    "Life Below Water - conserving and sustainably using oceans and marine resources",
    "Life on Land - protecting and restoring terrestrial ecosystems and biodiversity",
    "Peace Justice and Strong Institutions - promoting peaceful and inclusive societies",
    "Partnerships for the Goals - strengthening global partnerships for sustainable development" >>

\* app.py SDG_LABELS
APP_SDG_LABELS == <<
    "No Poverty - ending poverty in all its forms",
    "Zero Hunger - ending hunger and promoting sustainable agriculture",
    "Good Health and Well-being - ensuring healthy lives",
    "Quality Education - ensuring inclusive education",
    "Gender Equality - achieving gender equality",
    "Clean Water and Sanitation - ensuring water availability",
    "Affordable and Clean Energy - ensuring clean energy access",
    "Decent Work and Economic Growth - promoting economic growth",
    "Industry Innovation and Infrastructure - building infrastructure",
    "Reduced Inequality - reducing inequality",
    "Sustainable Cities and Communities - making cities sustainable",
    "Responsible Consumption and Production - ensuring sustainable consumption",
    "Climate Action - combating climate change",
    "Life Below Water - conserving oceans",
    "Life on Land - protecting terrestrial ecosystems",
    "Peace Justice and Strong Institutions - promoting peace",
    "Partnerships for the Goals - strengthening partnerships" >>

\* ModelLoader.sdg_labels
sdg_labels == <<
    "No Poverty", "Zero Hunger", "Good Health and Well-being",
    "Quality Education", "Gender Equality", "Clean Water and Sanitation",
    "Affordable and Clean Energy", "Decent Work and Economic Growth",
    "Industry, Innovation and Infrastructure", "Reduced Inequality",
    "Sustainable Cities and Communities", "Responsible Consumption and Production",
    "Climate Action", "Life Below Water", "Life on Land",
    "Peace, Justice and Strong Institutions", "Partnerships for the Goals" >>

\* sdg_keywords of api/index.py extract_keywords_from_text
INDEX_SDG_KEYWORDS == <<
    <<"poverty", "poor", "income", "economic", "financial", "disadvantage">>,
    <<"hunger", "food", "nutrition", "agriculture", "farming", "malnutrition">>,
    <<"health", "medical", "disease", "healthcare", "wellbeing", "wellness">>,
    <<"education", "school", "learning", "student", "teacher", "literacy">>,
    <<"gender", "women", "equality", "female", "empowerment", "rights">>,
    <<"water", "sanitation", "hygiene", "clean", "wastewater", "sewage">>,
    <<"energy", "renewable", "solar", "electricity", "power", "wind">>,
    <<"employment", "work", "economic", "growth", "job", "labor">>,
    <<"industry", "innovation", "infrastructure", "technology", "research">>,
    <<"inequality", "equality", "inclusion", "discrimination", "disparity">>,
    <<"cities", "urban", "sustainable", "community", "housing", "settlement">>,
    <<"consumption", "production", "waste", "sustainable", "recycling">>,
    <<"climate", "carbon", "emission", "warming", "environmental", "greenhouse">>,
    <<"ocean", "marine", "water", "sea", "aquatic", "fish">>,
    <<"forest", "biodiversity", "land", "ecosystem", "wildlife", "conservation">>,
    <<"peace", "justice", "institutions", "governance", "rights", "law">>,
    <<"partnership", "collaboration", "cooperation", "global", "alliance">> >>

\* sdg_keywords of ModelLoader._extract_keywords
LOADER_SDG_KEYWORDS == <<
    <<"poverty", "poor", "income", "economic", "financial">>,
    <<"hunger", "food", "nutrition", "agriculture", "farming">>,
    <<"health", "medical", "disease", "healthcare", "wellbeing">>,
    <<"education", "school", "learning", "student", "teacher">>,
    <<"gender", "women", "equality", "female", "empowerment">>,
    <<"water", "sanitation", "hygiene", "clean", "wastewater">>,
    <<"energy", "renewable", "solar", "electricity", "power">>,
    <<"employment", "work", "economic", "growth", "job">>,
    <<"industry", "innovation", "infrastructure", "technology">>,
    <<"inequality", "equality", "inclusion", "discrimination">>,
    <<"cities", "urban", "sustainable", "community", "housing">>,
    <<"consumption", "production", "waste", "sustainable">>,
    <<"climate", "carbon", "emission", "warming", "environmental">>,
    <<"ocean", "marine", "water", "sea", "aquatic">>,
    <<"forest", "biodiversity", "land", "ecosystem", "wildlife">>,
    <<"peace", "justice", "institutions", "governance", "rights">>,
    <<"partnership", "collaboration", "cooperation", "global">> >>

\* sdg_keywords.get(sdg_number, [])
KeywordsGet(table, sdg_number) ==
    IF sdg_number \in DOMAIN table THEN table[sdg_number] ELSE <<>>

\* the body shared by both keyword extractors: lower the text, keep the
\* keywords that occur in it, in table order, cut to the first five
MatchKeywords_untruncated(table, txt, sdg_number) ==
    LET text_lower == Lower(txt)
        keywords == KeywordsGet(table, sdg_number)
        InText(kw) == Contains(text_lower, kw)
    IN  SelectSeq(keywords, InText)

MatchKeywords(table, txt, sdg_number) ==
    LET text_lower == Lower(txt)
        keywords == KeywordsGet(table, sdg_number)
        InText(kw) == Contains(text_lower, kw)
        matched == SelectSeq(keywords, InText)
    IN  Take(matched, MAX_KEYWORDS)

\* api/index.py extract_keywords_from_text
extract_keywords_from_text(txt, sdg_number) ==
    MatchKeywords(INDEX_SDG_KEYWORDS, txt, sdg_number)

\* ModelLoader._extract_keywords
_extract_keywords(txt, sdg_number) ==
    MatchKeywords(LOADER_SDG_KEYWORDS, txt, sdg_number)

(***************************************************************************)
(* Inputs of the model                                                     *)
(***************************************************************************)
\* request texts (the concatenation title + abstract + keywords + full_text)
Texts == {
    "",
    "Quantum chromodynamics",
    "Poverty and Income",
    "Adult literacy",
    "clean water and sanitation",
    "Water sanitation hygiene clean wastewater sewage",
    "gender inequality" }

\* a request text longer than the 500 characters the remote request keeps
LongTexts == { Repeat("Clean Water 4 all! ", 30) }

TopKs == 1..MaxTopK

\* texts and SDG numbers the keyword extractors are applied to on their own:
\* the request texts, a text with capitals, digits and punctuation, and
\* numbers on both sides of 1..17
MatchTexts == Texts \cup {"Clean-Water & SANITATION 2030: sewage, Hygiene; wastewater"}
ProbeIds == (-1)..(NUM_SDGS + 1)

\* confidences _generate_explanation is applied to on its own, in hundredths:
\* both sides of each band limit and the ends of the range
ExplainConfs == {0, 5, 39, 40, 41, 69, 70, 71, 100}

\* scores the remote service may attach to a label, in hundredths
RemoteScores == {1, 5, 90}

\* labels the remote service may return: candidate labels of the request
LabelSample == {1, 2, 6}

\* SDG ids that get a non-zero probability from the local classifier, and the
\* probabilities (in hundredths) they may get
LocalSample == {5, 10}
LocalProbs == {3, 5, 60}

\* contents of BEST_MODEL_LightGBM_TFIDF.joblib on disk
Artifacts == {"missing", "corrupt", "unknown", "pipeline", "dict", "dict_opaque", "dict_no_vec"}

\* contents of the cache file of HuggingFacePredictor once _load_model has
\* looked for it and, without it, tried the download: "missing" when neither
\* gave a file
PredictorArtifacts == {"missing", "corrupt", "unknown", "pipeline", "dict"}

Exceptions == {"Timeout", "ConnectionError", "JSONDecodeError", "IndexError",
               "AttributeError", "ValueError", "UnpicklingError"}

\* requests.Timeout is a subclass of Exception, as every other one raised here
IsException(exc) == exc \in Exceptions

NoResponse == [kind |-> "none", status |-> 0, json |-> "none", keys |-> {},
               labels |-> <<>>, scores |-> <<>>]

NoRequest == [sent |-> FALSE, inputs |-> "", candidate_labels |-> <<>>, multi_label |-> FALSE]

\* input: what predict_proba was called with ("none": it was not called);
\* arg: the processed text of the call
NoProbs == [kind |-> "none", input |-> "none", arg |-> "", tie |-> "none", p |-> <<>>]

NoProbe == [applied |-> FALSE, sdg_number |-> 0, matched |-> <<>>, confidence |-> 0,
            explanation |-> ""]

\* sequences over S of length 0..n
RECURSIVE SeqsUpTo(_, _)
SeqsUpTo(S, n) ==
    IF n = 0 THEN {<<>>}
    ELSE LET shorter == SeqsUpTo(S, n - 1)
         IN  shorter \cup {Append(q, x) : q \in {r \in shorter : Len(r) = n - 1}, x \in S}

\* 200 answers carrying a JSON object with labels and scores aligned by
\* index: each candidate label at most once, in any order, with any scores
AlignedPayloads(labels) ==
    { [kind |-> "http", status |-> 200, json |-> "dict", keys |-> {"labels", "scores"},
       labels |-> [i \in 1..Len(q) |-> labels[q[i][1]]],
       scores |-> [i \in 1..Len(q) |-> q[i][2]]] :
      q \in { r \in SeqsUpTo(LabelSample \X RemoteScores, MaxLabels) \ {<<>>} :
                \A i, j \in DOMAIN r : i # j => r[i][1] # r[j][1] } }

\* everything the remote call can end in
Responses(labels) ==
    AlignedPayloads(labels)
    \cup { [NoResponse EXCEPT !.kind = "timeout"],
           [NoResponse EXCEPT !.kind = "connection_error"],
           [NoResponse EXCEPT !.kind = "http", !.status = 503],
           [NoResponse EXCEPT !.kind = "http", !.status = 500],
           \* 200 with a body that is not JSON
           [NoResponse EXCEPT !.kind = "http", !.status = 200, !.json = "invalid"],
           \* 200 with a JSON list instead of an object
           [NoResponse EXCEPT !.kind = "http", !.status = 200, !.json = "list"],
           \* 200 with {} : no 'labels' and no 'scores'
           [NoResponse EXCEPT !.kind = "http", !.status = 200, !.json = "dict"],
           \* 200 with {"labels": [], "scores": []}
           [NoResponse EXCEPT !.kind = "http", !.status = 200, !.json = "dict",
                              !.keys = {"labels", "scores"}],
           \* 200 with a label but no score for it
           [NoResponse EXCEPT !.kind = "http", !.status = 200, !.json = "dict",
                              !.keys = {"labels"}, !.labels = <<labels[1]>>] }

\* probability vectors of the local classifier
ProbVectors ==
    { [i \in SDG_IDS |-> IF i \in LocalSample THEN f[i] ELSE 0] :
      f \in [LocalSample -> LocalProbs] }

(***************************************************************************)
(* State                                                                   *)
(***************************************************************************)
VARIABLES
    deployment,     \* "index" (api/index.py), "app" (app.py) or "predictor"
                    \* (a HuggingFacePredictor of utils/huggingface_predictor.py)
    HF_API_TOKEN,   \* TRUE iff the environment sets HF_API_TOKEN
    artifact,       \* what the model file holds
    sdg_model,      \* ModelLoader.sdg_model
    vectorizer,     \* ModelLoader.vectorizer
    model,          \* HuggingFacePredictor.model
    loads,          \* calls of load_models / _load_model so far
    workers,        \* requests app.py serves at the same time: where each is
                    \* and what it read of the loader
    pc,             \* position of the request in the call chain
    text,           \* analysis_text of the request
    top_k,
    hf_request,     \* the payload posted to HF_API_URL
    posts,          \* calls of requests.post made for this request
    response,       \* what the remote call ended in
    probabilities,  \* what the local inference ended in
    invoked,        \* tiers invoked for this request, in order
    tier_yield,     \* candidates each tier returned
    results,        \* the list handed to the caller
    source_tier,    \* tier the results come from
    raised,         \* an exception left the classification call
    probe,          \* argument and value of a keyword match applied on its own
    download        \* api/download_model.py: the model file in /tmp/models and
                    \* the calls of download_model under way

vars == <<deployment, HF_API_TOKEN, artifact, sdg_model, vectorizer, model, loads,
          workers, pc, text, top_k, hf_request, posts, response, probabilities, invoked,
          tier_yield, results, source_tier, raised, probe, download>>

config == <<deployment, HF_API_TOKEN, artifact, probe, workers, download>>
loaded == <<sdg_model, vectorizer, model, loads>>

\* the locals of one classification call
call_locals == <<text, top_k, hf_request, posts, response, probabilities, invoked,
                 tier_yield, results, source_tier, raised>>

\* the callers of download_model: two invocations of the function that may
\* overlap
Callers == {1, 2}

\* pc: position in download_model; at: chunks this call has written;
\* orphan: the file this call writes to has been removed from the directory;
\* result: what the call returned
NoCaller == [pc |-> "idle", at |-> 0, orphan |-> FALSE, result |-> "none"]

\* the file at model_path: whether it exists and the chunks it holds
NoFile == [exists |-> FALSE, chunks |-> {}]

\* url_set: MODEL_URL is set; remote_valid: the complete remote file is one
\* joblib.load can read
NoDownload == [url_set |-> FALSE, remote_valid |-> FALSE, file |-> NoFile,
               callers |-> [c \in Callers |-> NoCaller]]

\* the threads of the server
Workers == {1, 2}
NoWorker == [pc |-> "idle", top_k |-> 0, sdg_model |-> "unread", vectorizer |-> "unread"]

Tiers == {"remote", "local", "rule_based"}
NoYield == [t \in Tiers |-> <<>>]

(***************************************************************************)
(* Rule-based tier                                                         *)
(***************************************************************************)
SENTINEL_EXPLANATION == "No SDGs detected with sufficient confidence"

\* api/index.py: the sentinel of fallback_prediction
IndexSentinel ==
    [sdg_number |-> 0, sdg_name |-> "No Clear Match", confidence |-> 0,
     matched_keywords |-> <<>>, explanation |-> SENTINEL_EXPLANATION,
     source |-> "fallback"]

\* model_loader.py: the sentinel of _fallback_prediction
LoaderSentinel ==
    [sdg_number |-> 0, sdg_name |-> "No Clear Match", confidence |-> 0,
     matched_keywords |-> <<>>, explanation |-> SENTINEL_EXPLANATION]

\* sdg_scores.items(): the (sdg_num, score) pairs of a dict filled for
\* sdg_num = 1..17, in insertion order; scores[i] = 0 stands for "SDG i was
\* not entered"
ScoreItems_with_zero(scores) == [i \in SDG_IDS |-> <<i, scores[i]>>]

ScoreItems(scores) ==
    LET all == [i \in SDG_IDS |-> <<i, scores[i]>>]
        Entered(item) == item[2] > 0
    IN  SelectSeq(all, Entered)

\* api/index.py fallback_prediction: sdg_scores
index_sdg_scores(txt) ==
    ScoreItems([sdg_num \in SDG_IDS |->
        LET score == Len(extract_keywords_from_text(txt, sdg_num)) * SCORE_PER_KEYWORD
        IN  IF score > 0 THEN Min(INDEX_CAP, score) ELSE 0])

\* api/index.py fallback_prediction: sorted_sdgs
index_sorted_sdgs(txt, k) == Take(SortedDesc(index_sdg_scores(txt)), k)

\* api/index.py fallback_prediction: one candidate
index_rule_candidate(txt, item) ==
    [sdg_number |-> item[1],
     sdg_name |-> LeadingSegment(INDEX_SDG_LABELS[item[1]]),
     confidence |-> item[2],
     matched_keywords |-> extract_keywords_from_text(txt, item[1]),
     explanation |-> "Rule-based match. Found "
                     \o ToString(Len(extract_keywords_from_text(txt, item[1])))
                     \o " relevant keywords",
     source |-> "rule_based_fallback"]

\* api/index.py fallback_prediction: what replaces an empty result list
index_no_results_sentinel_dropped(rs) == rs
index_no_results(rs) == IF rs = <<>> THEN <<IndexSentinel>> ELSE rs

\* api/index.py fallback_prediction
fallback_prediction(txt, k) ==
    LET sorted_sdgs == index_sorted_sdgs(txt, k)
        rs == [i \in 1..Len(sorted_sdgs) |-> index_rule_candidate(txt, sorted_sdgs[i])]
    IN  index_no_results(rs)

\* model_loader.py _fallback_prediction: sdg_scores (not capped here)
loader_sdg_scores(txt) ==
    ScoreItems([sdg_num \in SDG_IDS |->
        Len(_extract_keywords(txt, sdg_num)) * SCORE_PER_KEYWORD])

\* model_loader.py _fallback_prediction: sorted_sdgs
loader_sorted_sdgs_untruncated(txt, k) == SortedDesc(loader_sdg_scores(txt))
loader_sorted_sdgs(txt, k) == Take(SortedDesc(loader_sdg_scores(txt)), k)

\* model_loader.py _fallback_prediction: 'confidence': min(0.8, score)
loader_confidence_low_cap(score) == Min(70, score)
loader_confidence(score) == Min(LOADER_CAP, score)

\* model_loader.py _fallback_prediction: one candidate
loader_rule_candidate(txt, item) ==
    [sdg_number |-> item[1],
     sdg_name |-> sdg_labels[item[1]],
     confidence |-> loader_confidence(item[2]),
     matched_keywords |-> _extract_keywords(txt, item[1]),
     explanation |-> "Rule-based match. Confidence: " \o Fmt2f(item[2])]

\* model_loader.py _fallback_prediction: what replaces an empty result list
loader_no_results(rs) == IF rs = <<>> THEN <<LoaderSentinel>> ELSE rs

\* model_loader.py ModelLoader._fallback_prediction
_fallback_prediction(txt, k) ==
    LET sorted_sdgs == loader_sorted_sdgs(txt, k)
        rs == [i \in 1..Len(sorted_sdgs) |-> loader_rule_candidate(txt, sorted_sdgs[i])]
    IN  loader_no_results(rs)

(***************************************************************************)
(* Remote tier                                                             *)
(***************************************************************************)
\* data.get(key, [])
DataGet(resp, key) ==
    IF key \in resp.keys THEN (IF key = "labels" THEN resp.labels ELSE resp.scores)
    ELSE <<>>

\* api/index.py predict_sdgs_with_hf: the candidate built in round i of the
\* loop (i counts from 1 here, so the code's i + 1 is i)
index_remote_candidate(txt, labels, scores, i) ==
    LET label == labels[i]
        score == scores[i]
        sdg_number == i
        sdg_name == LeadingSegment(label)
    IN  [sdg_number |-> sdg_number,
         sdg_name |-> sdg_name,
         confidence |-> score,
         matched_keywords |-> extract_keywords_from_text(txt, sdg_number),
         explanation |-> "AI-predicted alignment with " \o sdg_name
                         \o ". Confidence: " \o Fmt2Pct(score),
         source |-> "huggingface_inference_api"]

\* app.py predict_with_hf_api: the candidate built in round i of the loop
app_remote_candidate(txt, labels, scores, i) ==
    LET sdg_name == LeadingSegment(labels[i])
    IN  [sdg_number |-> i,
         sdg_name |-> sdg_name,
         confidence |-> scores[i],
         matched_keywords |-> _extract_keywords(txt, i),
         explanation |-> "AI analysis: " \o sdg_name \o " (" \o Fmt1Pct(scores[i])
                         \o " confidence)"]

\* The body of the try block after requests.post returned or raised, for
\* caller "index" (predict_sdgs_with_hf) or "app" (predict_with_hf_api):
\* exc is the exception it ends in ("none" if it returns), branch the status
\* branch taken, value the list built on a 200.
HfTryBody(resp, txt, k, caller) ==
    LET none == [exc |-> "none", branch |-> "none", value |-> <<>>]
        Candidate(t, labels, scores, i) ==
            IF caller = "index" THEN index_remote_candidate(t, labels, scores, i)
            ELSE app_remote_candidate(t, labels, scores, i)
    IN  CASE resp.kind = "timeout" -> [none EXCEPT !.exc = "Timeout"]
          [] resp.kind = "connection_error" -> [none EXCEPT !.exc = "ConnectionError"]
          [] resp.kind = "http" /\ resp.status = 200 ->
                IF resp.json = "invalid" THEN [none EXCEPT !.exc = "JSONDecodeError"]
                ELSE IF resp.json = "list" THEN [none EXCEPT !.exc = "AttributeError"]
                ELSE LET labels == DataGet(resp, "labels")
                         scores == DataGet(resp, "scores")
                         n == Min(k, Len(labels))
                     IN  IF n > Len(scores) THEN [none EXCEPT !.exc = "IndexError"]
                         ELSE [none EXCEPT !.branch = "200",
                                 !.value = [i \in 1..n |-> Candidate(txt, labels, scores, i)]]
          [] resp.kind = "http" /\ resp.status = 503 -> [none EXCEPT !.branch = "503"]
          [] OTHER -> [none EXCEPT !.branch = "other"]

\* api/index.py predict_sdgs_with_hf: except requests.Timeout / except Exception
index_handles_only_timeout(exc) == exc = "Timeout"
index_handles(exc) == exc = "Timeout" \/ IsException(exc)

\* app.py predict_with_hf_api: except Exception
app_handles(exc) == IsException(exc)

\* if not HF_API_TOKEN (both callers)
token_missing_never(token) == FALSE
token_missing(token) == ~token

\* app.py upload_file: if not model_results (None and [] are both falsy)
not_model_results_always(hf_value) == TRUE
not_model_results(hf_value) == hf_value.is_none \/ hf_value.list = <<>>

\* app.py predict_with_hf_api, from the answer of requests.post on: the value
\* it returns (None or a list), or the exception that leaves it
predict_with_hf_api(resp, txt, k) ==
    LET body == HfTryBody(resp, txt, k, "app")
        None == [is_none |-> TRUE, list |-> <<>>]
    IN  IF body.exc # "none"
        THEN [raises |-> ~app_handles(body.exc), value |-> None]
        ELSE IF body.branch = "200"
        THEN [raises |-> FALSE, value |-> [is_none |-> FALSE, list |-> body.value]]
        ELSE [raises |-> FALSE, value |-> None]

(***************************************************************************)
(* Local tier                                                              *)
(***************************************************************************)
\* model_loader.py _preprocess_text
_preprocess_text(txt) == Strip(CollapseWhitespace(StripNonLetters(Lower(txt))))

\* hasattr(self.sdg_model, 'predict_proba')
HasPredictProba(mdl) == mdl \in {"pipeline", "classifier"}

\* model_loader.py _generate_explanation
_generate_explanation_two_bands(sdg_number, confidence, txt) ==
    LET level == IF confidence >= STRONG_BAND THEN "Strong alignment" ELSE "Weak alignment"
        keywords == Take(_extract_keywords(txt, sdg_number), EXPLAIN_KEYWORDS)
        kw_text == IF keywords # <<>> THEN Join(keywords) ELSE "general terms"
    IN  level \o " with SDG " \o ToString(sdg_number) \o ". Key indicators: " \o kw_text

_generate_explanation(sdg_number, confidence, txt) ==
    LET level == IF confidence >= STRONG_BAND THEN "Strong alignment"
                 ELSE IF confidence >= MODERATE_BAND THEN "Moderate alignment"
                 ELSE "Weak alignment"
        keywords == Take(_extract_keywords(txt, sdg_number), EXPLAIN_KEYWORDS)
        kw_text == IF keywords # <<>> THEN Join(keywords) ELSE "general terms"
    IN  level \o " with SDG " \o ToString(sdg_number) \o ". Key indicators: " \o kw_text

\* np.argsort(probabilities)[::-1] : the ids by descending probability.  The
\* default sort kind of argsort is not stable, so the order of ids with equal
\* probability is the build's choice: tie = "asc" lists them by ascending id,
\* tie = "desc" by descending id.
ArgsortReversed(p, tie) ==
    LET n == Len(p)
        ids == IF tie = "asc" THEN [i \in 1..n |-> i] ELSE [i \in 1..n |-> n + 1 - i]
        ordered == SortedDesc([j \in 1..n |-> <<ids[j], p[ids[j]]>>])
    IN  [j \in 1..n |-> ordered[j][1]]

\* model_loader.py predict_sdgs: top_indices
top_indices(p, k, tie) == Take(ArgsortReversed(p, tie), k)

\* model_loader.py predict_sdgs: the loop over top_indices
local_results(p, k, tie, txt) ==
    LET AboveFloor(idx) == ~(p[idx] < MIN_CONF)
        kept == SelectSeq(top_indices(p, k, tie), AboveFloor)
    IN  [j \in 1..Len(kept) |->
            [sdg_number |-> kept[j],
             sdg_name |-> sdg_labels[kept[j]],
             confidence |-> p[kept[j]],
             matched_keywords |-> _extract_keywords(txt, kept[j]),
             explanation |-> _generate_explanation(kept[j], p[kept[j]], txt)]]

\* what the inference of predict_sdgs can end in for the loaded objects:
\* the classifier is opaque, so a call of predict_proba returns any vector
\* or raises; an object without predict_proba raises AttributeError
\* (input "features"), and vectorizer.transform may raise before it
Inferences(mdl, vec, processed) ==
    IF HasPredictProba(mdl)
    THEN { [kind |-> "probs", input |-> "text", arg |-> processed, tie |-> t, p |-> p] :
             t \in {"asc", "desc"}, p \in ProbVectors }
         \cup { [NoProbs EXCEPT !.kind = "ValueError", !.input = "text", !.arg = processed] }
    ELSE IF vec # "None"
    THEN { [NoProbs EXCEPT !.kind = "AttributeError", !.input = "features", !.arg = processed],
           [NoProbs EXCEPT !.kind = "ValueError", !.arg = processed] }
    ELSE { [NoProbs EXCEPT !.kind = "undetermined", !.arg = processed] }

\* model_loader.py predict_sdgs: self.sdg_model once the inference has ended
\* in outcome (a vector or an exception).  The method assigns nothing to self.
sdg_model_after_call_disabling(mdl, outcome) == IF IsException(outcome) THEN "None" ELSE mdl

sdg_model_after_call(mdl, outcome) == mdl

\* model_loader.py predict_sdgs: except Exception
loader_handles_none(exc) == FALSE

loader_handles(exc) == IsException(exc)

\* model_loader.py load_models: the body of its try statement.  joblib.load
\* raises on a file it cannot deserialize.
load_models_body(art) ==
    LET None == [exc |-> "none", sdg_model |-> "None", vectorizer |-> "None"]
    IN  CASE art = "missing" -> None
          [] art = "corrupt" -> [None EXCEPT !.exc = "UnpicklingError"]
          [] art = "unknown" -> None
          [] art = "pipeline" -> [None EXCEPT !.sdg_model = "pipeline"]
          [] art = "dict" -> [None EXCEPT !.sdg_model = "classifier", !.vectorizer = "tfidf"]
          [] art = "dict_opaque" -> [None EXCEPT !.sdg_model = "opaque", !.vectorizer = "tfidf"]
          [] OTHER -> [None EXCEPT !.sdg_model = "opaque"]

\* model_loader.py load_models: except Exception
load_handles_none(exc) == FALSE

load_handles(exc) == IsException(exc)

(***************************************************************************)
(* HuggingFacePredictor                                                    *)
(***************************************************************************)
\* what the class HuggingFacePredictor and its __init__ define
HFP_ATTRIBUTES == {"model_url", "model", "model_cache_path", "_load_model", "predict_sdgs"}

\* the lookup self.<name> on a HuggingFacePredictor: the exception it raises
hfp_getattr(name) == IF name \in HFP_ATTRIBUTES THEN "none" ELSE "AttributeError"

\* huggingface_predictor.py predict_sdgs: where the call ends.  Without a
\* model it returns self._fallback_prediction(...); with one, the first
\* statement of the try is self._preprocess_text(text), and the except clause
\* returns self._fallback_prediction(...) too.
hfp_predict_end(mdl) ==
    IF mdl = "None" THEN hfp_getattr("_fallback_prediction")
    ELSE IF hfp_getattr("_preprocess_text") # "none"
    THEN hfp_getattr("_fallback_prediction")
    ELSE "inference"

(***************************************************************************)
(* Initial state and actions                                               *)
(***************************************************************************)
Init ==
    /\ deployment \in {"index", "app", "predictor"}
    /\ HF_API_TOKEN \in (IF deployment = "predictor" THEN {FALSE} ELSE BOOLEAN)
    /\ artifact \in CASE deployment = "app" -> Artifacts
                    [] deployment = "predictor" -> PredictorArtifacts
                    [] OTHER -> {"missing"}
    /\ sdg_model = "None"
    /\ vectorizer = "None"
    /\ model = "None"
    /\ loads = 0
    /\ workers = [w \in Workers |-> NoWorker]
    /\ pc = CASE deployment = "app" -> "boot"
             [] deployment = "predictor" -> "hfp_boot"
             [] OTHER -> "idle"
    /\ text = ""
    /\ top_k = MaxTopK
    /\ hf_request = NoRequest
    /\ posts = 0
    /\ probe = NoProbe
    /\ download = NoDownload
    /\ response = NoResponse
    /\ probabilities = NoProbs
    /\ invoked = <<>>
    /\ tier_yield = NoYield
    /\ results = <<>>
    /\ source_tier = "none"
    /\ raised = FALSE

\* model_loader.py ModelLoader.load_models, run by ModelLoader.__init__ when
\* app.py is imported
load_models ==
    /\ pc = "boot"
    /\ LET body == load_models_body(artifact)
       IN  IF body.exc = "none"
           THEN /\ pc' = "idle"
                /\ sdg_model' = body.sdg_model
                /\ vectorizer' = body.vectorizer
           ELSE IF load_handles(body.exc)
           THEN /\ pc' = "idle"
                /\ sdg_model' = "None"
                /\ UNCHANGED vectorizer
           ELSE \* the exception leaves __init__ and the import of app.py
                /\ pc' = "crashed"
                /\ UNCHANGED <<sdg_model, vectorizer>>
    /\ loads' = loads + 1
    /\ UNCHANGED <<config, model, text, top_k, hf_request, posts, response, probabilities,
                   invoked, tier_yield, results, source_tier, raised>>

\* huggingface_predictor.py _load_model, run by HuggingFacePredictor.__init__:
\* whatever object joblib.load gives becomes self.model; a failed download or
\* load leaves it None
_load_model ==
    /\ pc = "hfp_boot"
    /\ pc' = "idle"
    /\ model' = IF artifact \in {"missing", "corrupt"} THEN "None" ELSE artifact
    /\ loads' = loads + 1
    /\ UNCHANGED <<config, sdg_model, vectorizer, text, top_k, hf_request, posts, response,
                   probabilities, invoked, tier_yield, results, source_tier, raised>>

\* huggingface_predictor.py predict_sdgs
hfp_predict_sdgs ==
    /\ pc = "hfp_call"
    /\ pc' = "hfp_return"
    /\ raised' = (hfp_predict_end(model) = "AttributeError")
    /\ UNCHANGED <<config, loaded, text, top_k, hf_request, posts, response, probabilities,
                   invoked, tier_yield, results, source_tier>>

\* a classification request arrives: extract (api/index.py) or upload_file
\* (app.py) has built analysis_text and starts the prediction
Request(txt, k) ==
    /\ pc = "idle"
    /\ pc' = IF deployment = "predictor" THEN "hfp_call" ELSE "try_remote"
    /\ text' = txt
    /\ top_k' = k
    /\ UNCHANGED <<config, loaded, hf_request, posts, response, probabilities, invoked,
                   tier_yield, results, source_tier, raised>>

\* the handler has answered its caller; the locals of the call are gone
handler_return ==
    /\ pc = "done"
    /\ pc' = "idle"
    /\ text' = ""
    /\ top_k' = MaxTopK
    /\ hf_request' = NoRequest
    /\ posts' = 0
    /\ response' = NoResponse
    /\ probabilities' = NoProbs
    /\ invoked' = <<>>
    /\ tier_yield' = NoYield
    /\ results' = <<>>
    /\ source_tier' = "none"
    /\ raised' = FALSE
    /\ UNCHANGED <<config, loaded>>

\* where a request goes on once the remote call gave no candidates: the
\* request is not sent again
after_remote_failure_retry(d) == "try_remote"

after_remote_failure(d) == IF d = "index" THEN "rule" ELSE "try_local"

\* the request both callers post to HF_API_URL
HfPayload_untruncated(txt, labels) ==
    [sent |-> TRUE, inputs |-> txt, candidate_labels |-> labels, multi_label |-> TRUE]

HfPayload(txt, labels) ==
    [sent |-> TRUE, inputs |-> Take(txt, 500), candidate_labels |-> labels,
     multi_label |-> TRUE]

\* predict_sdgs_with_hf / predict_with_hf_api up to requests.post: without a
\* token the remote tier is skipped, otherwise the request is sent
hf_start ==
    /\ pc = "try_remote"
    /\ IF token_missing(HF_API_TOKEN)
       THEN /\ pc' = IF deployment = "index" THEN "rule" ELSE "try_local"
            /\ UNCHANGED <<hf_request, posts, invoked>>
       ELSE /\ pc' = "remote_wait"
            /\ hf_request' = HfPayload(text, IF deployment = "index"
                                             THEN INDEX_SDG_LABELS ELSE APP_SDG_LABELS)
            /\ posts' = posts + 1
            /\ invoked' = Append(invoked, "remote")
    /\ UNCHANGED <<config, loaded, text, top_k, response, probabilities, tier_yield,
                   results, source_tier, raised>>

\* api/index.py predict_sdgs_with_hf from the answer of requests.post on
index_answer(resp) ==
    /\ response' = resp
    /\ LET body == HfTryBody(resp, text, top_k, "index")
       IN  IF body.exc # "none" /\ ~index_handles(body.exc)
           THEN /\ raised' = TRUE
                /\ pc' = "done"
                /\ UNCHANGED <<results, tier_yield, source_tier>>
           ELSE IF body.exc = "none" /\ body.branch = "200"
           THEN /\ results' = body.value
                /\ tier_yield' = [tier_yield EXCEPT !["remote"] = body.value]
                /\ source_tier' = "remote"
                /\ pc' = "done"
                /\ UNCHANGED raised
           ELSE /\ pc' = after_remote_failure("index")
                /\ UNCHANGED <<results, tier_yield, source_tier, raised>>

\* api/index.py predict_sdgs_with_hf once the request is out: the remote
\* call ends in one of its answers
predict_sdgs_with_hf ==
    /\ pc = "remote_wait"
    /\ deployment = "index"
    /\ \E resp \in Responses(INDEX_SDG_LABELS) : index_answer(resp)
    /\ UNCHANGED <<config, loaded, text, top_k, hf_request, posts, probabilities, invoked>>

\* app.py upload_file: model_results = predict_with_hf_api(...), then the
\* test that sends the request on to model_loader.predict_sdgs
app_answer(resp) ==
    /\ response' = resp
    /\ LET out == predict_with_hf_api(resp, text, top_k)
       IN  IF out.raises
           THEN /\ raised' = TRUE
                /\ pc' = "done"
                /\ UNCHANGED <<results, tier_yield, source_tier>>
           ELSE /\ tier_yield' = [tier_yield EXCEPT !["remote"] = out.value.list]
                /\ UNCHANGED raised
                /\ IF not_model_results(out.value)
                   THEN /\ pc' = after_remote_failure("app")
                        /\ UNCHANGED <<results, source_tier>>
                   ELSE /\ pc' = "done"
                        /\ results' = out.value.list
                        /\ source_tier' = "remote"

\* app.py upload_file once the request of predict_with_hf_api is out
upload_file ==
    /\ pc = "remote_wait"
    /\ deployment = "app"
    /\ \E resp \in Responses(APP_SDG_LABELS) : app_answer(resp)
    /\ UNCHANGED <<config, loaded, text, top_k, hf_request, posts, probabilities, invoked>>

\* model_loader.py ModelLoader.predict_sdgs up to its return or to its call
\* of _fallback_prediction
predict_sdgs ==
    /\ pc = "try_local"
    /\ IF sdg_model = "None"
       THEN /\ pc' = "rule"
            /\ UNCHANGED <<sdg_model, probabilities, invoked, tier_yield, results,
                           source_tier, raised>>
       ELSE \E inf \in Inferences(sdg_model, vectorizer, _preprocess_text(text)) :
            /\ probabilities' = inf
            /\ sdg_model' = sdg_model_after_call(sdg_model, inf.kind)
            /\ invoked' = Append(invoked, "local")
            /\ IF IsException(inf.kind) /\ ~loader_handles(inf.kind)
               THEN /\ raised' = TRUE
                    /\ pc' = "done"
                    /\ UNCHANGED <<tier_yield, results, source_tier>>
               ELSE LET rs == IF inf.kind = "probs"
                              THEN local_results(inf.p, top_k, inf.tie, text) ELSE <<>>
                    IN  /\ tier_yield' = [tier_yield EXCEPT !["local"] = rs]
                        /\ UNCHANGED raised
                        /\ IF rs = <<>>
                           THEN /\ pc' = "rule"
                                /\ UNCHANGED <<results, source_tier>>
                           ELSE /\ pc' = "done"
                                /\ results' = rs
                                /\ source_tier' = "local"
    /\ UNCHANGED <<config, vectorizer, model, loads, text, top_k, hf_request, posts,
                   response>>

\* the rule-based tier: fallback_prediction (api/index.py) or
\* ModelLoader._fallback_prediction (app.py)
rule_based ==
    /\ pc = "rule"
    /\ pc' = "done"
    /\ invoked' = Append(invoked, "rule_based")
    /\ LET rs == IF deployment = "index" THEN fallback_prediction(text, top_k)
                 ELSE _fallback_prediction(text, top_k)
       IN  /\ results' = rs
           /\ tier_yield' = [tier_yield EXCEPT !["rule_based"] = rs]
           /\ source_tier' = IF rs # <<>> /\ rs[1].sdg_number # 0
                             THEN "rule_based" ELSE "none"
    /\ UNCHANGED <<config, loaded, text, top_k, hf_request, posts, response, probabilities,
                   raised>>

Next ==
    \/ load_models
    \/ _load_model
    \/ \E txt \in Texts, k \in TopKs : Request(txt, k)
    \/ hf_start
    \/ predict_sdgs_with_hf
    \/ upload_file
    \/ predict_sdgs
    \/ hfp_predict_sdgs
    \/ rule_based
    \/ handler_return

Spec == Init /\ [][Next]_vars

\* the keyword extractor of either entry point applied on its own
InitMatch ==
    /\ deployment \in {"index", "app"}
    /\ HF_API_TOKEN = FALSE
    /\ artifact = "missing"
    /\ sdg_model = "None"
    /\ vectorizer = "None"
    /\ model = "None"
    /\ loads = 0
    /\ workers = [w \in Workers |-> NoWorker]
    /\ pc = "match"
    /\ text \in MatchTexts
    /\ top_k = MaxTopK
    /\ hf_request = NoRequest
    /\ posts = 0
    /\ response = NoResponse
    /\ probabilities = NoProbs
    /\ invoked = <<>>
    /\ tier_yield = NoYield
    /\ results = <<>>
    /\ source_tier = "none"
    /\ raised = FALSE
    /\ probe = NoProbe
    /\ download = NoDownload

\* extract_keywords_from_text (api/index.py) or ModelLoader._extract_keywords
match_keywords(sdg_number) ==
    /\ pc = "match"
    /\ probe' = [NoProbe EXCEPT
                    !.applied = TRUE,
                    !.sdg_number = sdg_number,
                    !.matched = IF deployment = "index"
                                THEN extract_keywords_from_text(text, sdg_number)
                                ELSE _extract_keywords(text, sdg_number)]
    /\ UNCHANGED <<deployment, HF_API_TOKEN, artifact, workers, download, loaded, pc,
                   call_locals>>

NextMatch == \E sdg_number \in ProbeIds : match_keywords(sdg_number)

SpecMatch == InitMatch /\ [][NextMatch]_vars

\* ModelLoader._generate_explanation applied on its own
InitExplain ==
    /\ deployment = "app"
    /\ HF_API_TOKEN = FALSE
    /\ artifact = "pipeline"
    /\ sdg_model = "pipeline"
    /\ vectorizer = "None"
    /\ model = "None"
    /\ loads = 0
    /\ workers = [w \in Workers |-> NoWorker]
    /\ pc = "explain"
    /\ text \in MatchTexts
    /\ top_k = MaxTopK
    /\ hf_request = NoRequest
    /\ posts = 0
    /\ response = NoResponse
    /\ probabilities = NoProbs
    /\ invoked = <<>>
    /\ tier_yield = NoYield
    /\ results = <<>>
    /\ source_tier = "none"
    /\ raised = FALSE
    /\ probe = NoProbe
    /\ download = NoDownload

\* model_loader.py _generate_explanation(sdg_number, confidence, text)
generate_explanation(sdg_number, confidence) ==
    /\ pc = "explain"
    /\ probe' = [applied |-> TRUE, sdg_number |-> sdg_number,
                 matched |-> _extract_keywords(text, sdg_number),
                 confidence |-> confidence,
                 explanation |-> _generate_explanation(sdg_number, confidence, text)]
    /\ UNCHANGED <<deployment, HF_API_TOKEN, artifact, workers, download, loaded, pc,
                   call_locals>>

NextExplain ==
    \E sdg_number \in SDG_IDS, confidence \in ExplainConfs :
        generate_explanation(sdg_number, confidence)

SpecExplain == InitExplain /\ [][NextExplain]_vars

\* app.py serving requests on several threads.  The module body builds
\* model_loader (line 32) before the routes exist, so the server answers
\* only once load_models has returned; pc is the position of the import.
import_complete_always(position) == TRUE

import_complete(position) == position = "serving"

InitServe ==
    /\ deployment = "app"
    /\ HF_API_TOKEN = FALSE
    /\ artifact \in Artifacts
    /\ sdg_model = "None"
    /\ vectorizer = "None"
    /\ model = "None"
    /\ loads = 0
    /\ workers = [w \in Workers |-> NoWorker]
    /\ pc = "boot"
    /\ text = ""
    /\ top_k = MaxTopK
    /\ hf_request = NoRequest
    /\ posts = 0
    /\ response = NoResponse
    /\ probabilities = NoProbs
    /\ invoked = <<>>
    /\ tier_yield = NoYield
    /\ results = <<>>
    /\ source_tier = "none"
    /\ raised = FALSE
    /\ probe = NoProbe
    /\ download = NoDownload

\* load_models up to its first assignment: joblib.load and self.sdg_model
load_models_begin ==
    /\ pc = "boot"
    /\ loads' = loads + 1
    /\ LET body == load_models_body(artifact)
       IN  IF body.exc = "none"
           THEN /\ pc' = "loading"
                /\ sdg_model' = body.sdg_model
           ELSE IF load_handles(body.exc)
           THEN /\ pc' = "serving"
                /\ sdg_model' = "None"
           ELSE /\ pc' = "crashed"
                /\ UNCHANGED sdg_model
    /\ UNCHANGED <<config, vectorizer, model, call_locals>>

\* load_models from there on: self.vectorizer, then the return to __init__
\* and to the module body
load_models_end ==
    /\ pc = "loading"
    /\ pc' = "serving"
    /\ vectorizer' = load_models_body(artifact).vectorizer
    /\ UNCHANGED <<config, sdg_model, model, loads, call_locals>>

\* a thread takes a request
serve_start(w, k) ==
    /\ import_complete(pc)
    /\ workers[w].pc = "idle"
    /\ workers' = [workers EXCEPT ![w] = [NoWorker EXCEPT !.pc = "predict", !.top_k = k]]
    /\ UNCHANGED <<deployment, HF_API_TOKEN, artifact, probe, download, loaded, pc,
                   call_locals>>

\* ModelLoader.predict_sdgs on that thread reads self.sdg_model and
\* self.vectorizer
serve_predict(w) ==
    /\ workers[w].pc = "predict"
    /\ workers' = [workers EXCEPT ![w] = [@ EXCEPT !.pc = "answered",
                                                   !.sdg_model = sdg_model,
                                                   !.vectorizer = vectorizer]]
    /\ UNCHANGED <<deployment, HF_API_TOKEN, artifact, probe, download, loaded, pc,
                   call_locals>>

\* the thread has answered
serve_return(w) ==
    /\ workers[w].pc = "answered"
    /\ workers' = [workers EXCEPT ![w] = NoWorker]
    /\ UNCHANGED <<deployment, HF_API_TOKEN, artifact, probe, download, loaded, pc,
                   call_locals>>

NextServe ==
    \/ load_models_begin
    \/ load_models_end
    \/ \E w \in Workers, k \in TopKs : serve_start(w, k)
    \/ \E w \in Workers : serve_predict(w)
    \/ \E w \in Workers : serve_return(w)

SpecServe == InitServe /\ [][NextServe]_vars

(***************************************************************************)
(* api/download_model.py                                                   *)
(***************************************************************************)
AllChunks == 1..MaxChunks

\* what requests.get(model_url, timeout=60, stream=True) ends in
GetOutcomes == {"200", "404", "Timeout", "ConnectionError"}

\* joblib.load(model_path) on the file: it reads a complete file of a valid
\* artifact and raises on anything else
VerificationPasses(file, remote_valid) ==
    file.exists /\ file.chunks = AllChunks /\ remote_valid

\* line 16: if model_path.exists(): return True
exists_returns(file) == file.exists

InitDownload ==
    /\ deployment = "index"
    /\ HF_API_TOKEN = FALSE
    /\ artifact = "missing"
    /\ sdg_model = "None"
    /\ vectorizer = "None"
    /\ model = "None"
    /\ loads = 0
    /\ workers = [w \in Workers |-> NoWorker]
    /\ pc = "download"
    /\ text = ""
    /\ top_k = MaxTopK
    /\ hf_request = NoRequest
    /\ posts = 0
    /\ response = NoResponse
    /\ probabilities = NoProbs
    /\ invoked = <<>>
    /\ tier_yield = NoYield
    /\ results = <<>>
    /\ source_tier = "none"
    /\ raised = FALSE
    /\ probe = NoProbe
    /\ \E u, v \in BOOLEAN :
          download = [NoDownload EXCEPT !.url_set = u, !.remote_valid = v]

\* everything download_model leaves alone
download_frame ==
    UNCHANGED <<deployment, HF_API_TOKEN, artifact, probe, workers, loaded, pc, call_locals>>

dl_return(c, value) == [download.callers[c] EXCEPT !.pc = "returned", !.result = value]

\* a call of download_model starts (again): lines 10-13
dl_call(c) ==
    /\ pc = "download"
    /\ download.callers[c].pc \in {"idle", "returned"}
    /\ download' = [download EXCEPT !.callers[c] = [NoCaller EXCEPT !.pc = "exists"]]
    /\ download_frame

\* lines 16-26: the warm-start test, then MODEL_URL
dl_exists(c) ==
    /\ download.callers[c].pc = "exists"
    /\ download' = [download EXCEPT !.callers[c] =
          IF exists_returns(download.file) THEN dl_return(c, "True")
          ELSE IF ~download.url_set THEN dl_return(c, "False")
          ELSE [@ EXCEPT !.pc = "get"]]
    /\ download_frame

\* lines 32-34 and 63-76: requests.get and the branches that write nothing
dl_get(c, outcome) ==
    /\ download.callers[c].pc = "get"
    /\ download' = [download EXCEPT !.callers[c] =
          IF outcome = "200" THEN [@ EXCEPT !.pc = "open"] ELSE dl_return(c, "False")]
    /\ download_frame

\* line 39: open(model_path, 'wb') creates the file or empties it
dl_open(c) ==
    /\ download.callers[c].pc = "open"
    /\ download' = [download EXCEPT !.file = [exists |-> TRUE, chunks |-> {}],
                                    !.callers[c] = [@ EXCEPT !.pc = "stream", !.at = 0,
                                                             !.orphan = FALSE]]
    /\ download_frame

\* lines 40-43: the next chunk arrives and is written at this call's offset
dl_chunk(c) ==
    /\ download.callers[c].pc = "stream"
    /\ download.callers[c].at < MaxChunks
    /\ download' = [download EXCEPT
          !.file = IF download.callers[c].orphan \/ ~download.file.exists THEN @
                   ELSE [@ EXCEPT !.chunks = @ \cup {download.callers[c].at + 1}],
          !.callers[c] = [@ EXCEPT !.at = @ + 1]]
    /\ download_frame

\* line 40: iter_content raises (connection lost, read timeout); the with
\* statement closes the file and lines 68-76 return False
dl_stream_fails(c) ==
    /\ download.callers[c].pc = "stream"
    /\ download.callers[c].at < MaxChunks
    /\ download' = [download EXCEPT !.callers[c] = dl_return(c, "False")]
    /\ download_frame

\* lines 49-62: the stream is over; stat, then the verification.  stat or
\* os.remove on a path that is gone raises into lines 72-76.
dl_verify(c) ==
    /\ download.callers[c].pc = "stream"
    /\ download.callers[c].at = MaxChunks
    /\ IF ~download.file.exists
       THEN download' = [download EXCEPT !.callers[c] = dl_return(c, "False")]
       ELSE IF VerificationPasses(download.file, download.remote_valid)
       THEN download' = [download EXCEPT !.callers[c] = dl_return(c, "True")]
       ELSE download' = [download EXCEPT
              !.file = NoFile,
              !.callers = [d \in Callers |->
                  IF d = c THEN dl_return(c, "False")
                  ELSE IF download.callers[d].pc = "stream"
                  THEN [download.callers[d] EXCEPT !.orphan = TRUE]
                  ELSE download.callers[d]]]
    /\ download_frame

NextDownload ==
    \/ \E c \in Callers : dl_call(c)
    \/ \E c \in Callers : dl_exists(c)
    \/ \E c \in Callers, outcome \in GetOutcomes : dl_get(c, outcome)
    \/ \E c \in Callers : dl_open(c)
    \/ \E c \in Callers : dl_chunk(c)
    \/ \E c \in Callers : dl_stream_fails(c)
    \/ \E c \in Callers : dl_verify(c)

SpecDownload == InitDownload /\ [][NextDownload]_vars

\* the program up to the remote request, on request texts longer than the
\* request keeps
NextSend ==
    \/ load_models
    \/ _load_model
    \/ \E txt \in Texts \cup LongTexts, k \in TopKs : Request(txt, k)
    \/ hf_start

SpecSend == Init /\ [][NextSend]_vars

(***************************************************************************)
(* Vocabulary of the properties                                            *)
(***************************************************************************)
Returned == pc = "done" /\ ~raised

IsSentinel(c) == c.sdg_number = 0

\* a candidate that clears the confidence floor
Qualifies(c) == ~IsSentinel(c) /\ c.confidence >= 5

HasQualifying(rs) == \E i \in DOMAIN rs : Qualifies(rs[i])

TierRank(t) == CASE t = "remote" -> 1 [] t = "local" -> 2 [] OTHER -> 3

WasInvoked(t) == \E i \in DOMAIN invoked : invoked[i] = t

TierAvailable(t) ==
    CASE t = "remote" -> HF_API_TOKEN
      [] t = "local" -> deployment = "app" /\ sdg_model # "None"
      [] OTHER -> TRUE

\* the keyword table the entry point in use matches against
KeywordTable == IF deployment = "index" THEN INDEX_SDG_KEYWORDS ELSE LOADER_SDG_KEYWORDS

\* number of keywords of SDG i occurring in the lowered text
HitsIn(lowered, i) ==
    Cardinality({j \in DOMAIN KeywordTable[i] : Contains(lowered, KeywordTable[i][j])})

KeywordHits(i) == HitsIn(Lower(text), i)

NoKeywordAnywhere ==
    LET lowered == Lower(text) IN \A i \in SDG_IDS : HitsIn(lowered, i) = 0

\* the remote call itself failed: timeout, exception, or a status other than 200
RemoteCallFailed ==
    \/ response.kind \in {"timeout", "connection_error"}
    \/ response.kind = "http" /\ response.status # 200

\* a 200 answer without usable labels: not JSON, not an object, no 'labels',
\* empty 'labels', or labels without their scores
RemotePayloadUnusable ==
    /\ response.kind = "http" /\ response.status = 200
    /\ \/ response.json # "dict"
       \/ DataGet(response, "labels") = <<>>
       \/ Len(DataGet(response, "scores")) < Min(top_k, Len(DataGet(response, "labels")))

\* ids of the candidate labels whose leading segment is name
LabelIds(name) ==
    {id \in SDG_IDS : LeadingSegment(hf_request.candidate_labels[id]) = name}

(***************************************************************************)
(* C1: the tiers are attempted in the order remote, local, rule-based; a   *)
(* tier is skipped only when it is unavailable; a lower tier is invoked    *)
(* only when no higher tier returned a qualifying candidate; and a tier    *)
(* that returned a qualifying candidate is the last one invoked and the    *)
(* result is exactly what it returned.                                     *)
(***************************************************************************)
C1_TierOrder ==
    /\ \A i, j \in DOMAIN invoked : i < j => TierRank(invoked[i]) < TierRank(invoked[j])
    /\ \A i \in DOMAIN invoked : \A h \in Tiers :
          TierRank(h) < TierRank(invoked[i]) =>
             /\ ~HasQualifying(tier_yield[h])
             /\ ~WasInvoked(h) => ~TierAvailable(h)
    /\ \A t \in Tiers :
          HasQualifying(tier_yield[t]) =>
             /\ WasInvoked(t)
             /\ \A i \in DOMAIN invoked : TierRank(invoked[i]) <= TierRank(t)
             /\ pc = "done" => (results = tier_yield[t] /\ ~raised)

\* the remote tier failed, the local model answered with a qualifying
\* candidate, and the rule-based tier was not run
C1_Witness ==
    /\ pc = "done"
    /\ invoked = <<"remote", "local">>
    /\ source_tier = "local"
    /\ HasQualifying(results)

(***************************************************************************)
(* C2: without API credential and without a loaded local model, every      *)
(* request ends without exception in the rule-based tier alone: the result *)
(* is the single sentinel or a list of SDGs that each matched a keyword.   *)
(***************************************************************************)
C2_NoCredNoModel ==
    (pc = "done" /\ ~HF_API_TOKEN /\ sdg_model = "None") =>
        /\ ~raised
        /\ invoked = <<"rule_based">>
        /\ results # <<>>
        /\ \/ Len(results) = 1 /\ IsSentinel(results[1])
           \/ \A i \in DOMAIN results :
                 /\ results[i].sdg_number \in SDG_IDS
                 /\ results[i].matched_keywords # <<>>

C2_Witness ==
    /\ pc = "done" /\ ~HF_API_TOKEN /\ sdg_model = "None"
    /\ deployment = "app" /\ artifact = "corrupt"
    /\ source_tier = "rule_based"
    /\ Len(results) = 2

(***************************************************************************)
(* C3: every returned candidate other than the sentinel has a confidence   *)
(* of at least 0.05, whichever tier produced it.                           *)
(***************************************************************************)
C3_ConfidenceFloor ==
    Returned => \A i \in DOMAIN results :
                   ~IsSentinel(results[i]) => results[i].confidence >= 5

(***************************************************************************)
(* C4: in every returned result with a non-sentinel candidate the          *)
(* confidences never increase from one position to the next.               *)
(***************************************************************************)
C4_Monotone ==
    (Returned /\ \E i \in DOMAIN results : ~IsSentinel(results[i])) =>
        \A i, j \in DOMAIN results :
            i < j => results[i].confidence >= results[j].confidence

(***************************************************************************)
(* C5: the returned list has at most top_k elements.                       *)
(***************************************************************************)
C5_AtMostTopK == Returned => Len(results) <= top_k

\* the rule-based tier had more scoring SDGs than top_k and returned top_k
C5_Witness ==
    /\ Returned
    /\ source_tier = "rule_based"
    /\ Len(results) = top_k
    /\ LET lowered == Lower(text)
       IN  Cardinality({i \in SDG_IDS : HitsIn(lowered, i) > 0}) > top_k

(***************************************************************************)
(* C6: a sentinel candidate is always the sole element of its result and   *)
(* carries confidence 0, no keywords and the fixed explanation; a result   *)
(* holds the sentinel exactly when the rule-based tier was reached and no  *)
(* keyword of any SDG occurs in the text.                                  *)
(***************************************************************************)
C6_Sentinel ==
    Returned =>
        /\ \A i \in DOMAIN results :
              IsSentinel(results[i]) =>
                 /\ Len(results) = 1
                 /\ results[i].confidence = 0
                 /\ results[i].matched_keywords = <<>>
                 /\ results[i].explanation = "No SDGs detected with sufficient confidence"
        /\ (\E i \in DOMAIN results : IsSentinel(results[i]))
              <=> (WasInvoked("rule_based") /\ NoKeywordAnywhere)

\* a non-empty text without any keyword went through to the sentinel
C6_Witness ==
    /\ Returned
    /\ text # ""
    /\ WasInvoked("rule_based")
    /\ Len(results) = 1 /\ IsSentinel(results[1])

(***************************************************************************)
(* C7: when the remote call times out, raises, or answers a status other   *)
(* than 200, no exception reaches the caller and the result is that of the *)
(* tiers below: the local model's when it is loaded and returns            *)
(* candidates, otherwise the rule-based tier's.                            *)
(***************************************************************************)
C7_RemoteFailure ==
    (pc = "done" /\ RemoteCallFailed) =>
        /\ ~raised
        /\ tier_yield["remote"] = <<>>
        /\ WasInvoked("local") <=> TierAvailable("local")
        /\ WasInvoked("rule_based") <=> tier_yield["local"] = <<>>
        /\ results # <<>>
        /\ results = IF tier_yield["local"] # <<>> THEN tier_yield["local"]
                     ELSE tier_yield["rule_based"]

\* the connection failed and the local model answered instead
C7_Witness ==
    /\ pc = "done"
    /\ response.kind = "connection_error"
    /\ source_tier = "local"

(***************************************************************************)
(* C8: a 200 answer without usable labels makes the classification go on   *)
(* to the next tier: the caller gets that tier's candidates or the         *)
(* sentinel, never an empty list and never an exception.                   *)
(***************************************************************************)
C8_UnusablePayload ==
    (pc = "done" /\ RemotePayloadUnusable) =>
        /\ ~raised
        /\ results # <<>>
        /\ source_tier # "remote"
        /\ WasInvoked("local") \/ WasInvoked("rule_based")

(***************************************************************************)
(* C9: a candidate of the remote tier carries the id of the candidate      *)
(* label whose leading segment is the label the service returned for it,   *)
(* wherever the service put that label.                                    *)
(***************************************************************************)
C9_LabelMatch ==
    (Returned /\ source_tier = "remote") =>
        \A i \in DOMAIN results :
            results[i].sdg_number \in LabelIds(LeadingSegment(response.labels[i]))

(***************************************************************************)
(* C10: every candidate of the rule-based tier has confidence              *)
(* min(0.85, 0.15 * n), n being the number of keywords matched for its SDG *)
(* (the keywords of the SDG that occur in the text, at most five of them). *)
(***************************************************************************)
C10_RuleScore ==
    (Returned /\ source_tier = "rule_based") =>
        \A i \in DOMAIN results :
            LET n == Min(5, KeywordHits(results[i].sdg_number))
            IN  /\ n = Len(results[i].matched_keywords)
                /\ results[i].confidence = Min(85, 15 * n)

\* five keywords of SDG 6 matched in model_loader.py: confidence 0.75
C10_Witness ==
    /\ Returned
    /\ source_tier = "rule_based"
    /\ deployment = "app"
    /\ results[1].sdg_number = 6
    /\ Len(results[1].matched_keywords) = 5
    /\ results[1].confidence = 75

C12_PredictorNeverRaises ==
    pc = "hfp_return" => (~raised /\ results # <<>>)

(***************************************************************************)
(* C13: one classification call sends at most one request to the remote    *)
(* service: none without a credential, exactly one with it, and the        *)
(* request is not sent again after a 503, another non-200 status or a      *)
(* timeout.                                                                *)
(***************************************************************************)
C13_OneRequest ==
    /\ posts <= 1
    /\ ~HF_API_TOKEN => posts = 0
    /\ pc \in {"remote_wait", "try_local", "rule", "done"} =>
          posts = (IF HF_API_TOKEN THEN 1 ELSE 0)

\* the call ended after a 503 answer with the rule-based result and one request
C13_Witness ==
    /\ pc = "done"
    /\ response.kind = "http"
    /\ response.status = 503
    /\ posts = 1
    /\ WasInvoked("rule_based")

(***************************************************************************)
(* C14: the result of the rule-based tier never lists an SDG none of whose *)
(* keywords occurs in the text: every candidate of that tier other than    *)
(* the sentinel has a non-empty matched_keywords and an SDG with at least  *)
(* one keyword in the text.                                                *)
(***************************************************************************)
C14_NoZeroMatch ==
    (Returned /\ WasInvoked("rule_based")) =>
        \A i \in DOMAIN results :
            ~IsSentinel(results[i]) =>
                /\ results[i].matched_keywords # <<>>
                /\ results[i].confidence > 0
                /\ KeywordHits(results[i].sdg_number) > 0

\* the tier returned fewer candidates than top_k because only those SDGs
\* had a keyword in the text
C14_Witness ==
    /\ Returned
    /\ WasInvoked("rule_based")
    /\ results # <<>>
    /\ ~IsSentinel(results[1])
    /\ Len(results) < top_k
    /\ Len(results) < NUM_SDGS

(***************************************************************************)
(* C15: an exception raised by the feature transformation or by the        *)
(* inference of the local tier stays inside ModelLoader.predict_sdgs: the  *)
(* call raises nothing and returns the result the rule-based tier computes *)
(* from the original text and top_k of the call.                           *)
(***************************************************************************)
C15_LocalExceptionCaught ==
    IsException(probabilities.kind) =>
        /\ ~raised
        /\ pc \in {"rule", "done"}
        /\ pc = "done" =>
              /\ invoked[Len(invoked)] = "rule_based"
              /\ results = _fallback_prediction(text, top_k)
              /\ results # <<>>

\* the classifier raised on a text with keywords: rule-based candidates came back
C15_Witness ==
    /\ pc = "done"
    /\ probabilities.kind = "ValueError"
    /\ probabilities.input = "text"
    /\ ~raised
    /\ source_tier = "rule_based"
    /\ text = "clean water and sanitation"

(***************************************************************************)
(* C16: when the artifact holds a vectorizer and a model, every inference  *)
(* of the local tier transforms the text with the vectorizer and gives the *)
(* features to the classifier: predict_proba is never called on the text   *)
(* itself.                                                                 *)
(***************************************************************************)
C16_VectorizeFirst ==
    (deployment = "app" /\ vectorizer # "None" /\ probabilities.kind # "none") =>
        probabilities.input # "text"

(***************************************************************************)
(* C17: loading the model never fails fatally.  When the artifact is       *)
(* missing, cannot be deserialized or has an unknown format, no exception  *)
(* leaves load_models, sdg_model is None afterwards, and every later       *)
(* predict_sdgs call goes to the rule-based tier without an inference.     *)
(***************************************************************************)
C17_LoadNeverFatal ==
    /\ pc # "crashed"
    /\ (deployment = "app" /\ pc # "boot"
        /\ artifact \in {"missing", "corrupt", "unknown"}) =>
          /\ sdg_model = "None"
          /\ ~WasInvoked("local")
          /\ probabilities.kind = "none"
          /\ (pc = "done" /\ ~raised /\ source_tier # "remote") =>
                invoked[Len(invoked)] = "rule_based"

\* a file that cannot be deserialized: the request went through predict_sdgs
\* to the rule-based tier
C17_Witness ==
    /\ deployment = "app"
    /\ artifact = "corrupt"
    /\ sdg_model = "None"
    /\ pc = "done"
    /\ ~HF_API_TOKEN
    /\ invoked = <<"rule_based">>

\* the keywords a candidate has to carry: those of its SDG found in the
\* text of the call, by the keyword table of the entry point
ExpectedKeywords(c) == MatchKeywords(KeywordTable, text, c.sdg_number)

\* the banded explanation of a candidate
BandedExplanation(c) ==
    LET band == IF c.confidence >= 70 THEN "Strong"
                ELSE IF c.confidence >= 40 THEN "Moderate" ELSE "Weak"
        shown == Take(c.matched_keywords, 3)
    IN  band \o " alignment with SDG " \o ToString(c.sdg_number) \o ". Key indicators: "
        \o (IF shown = <<>> THEN "general terms" ELSE Join(shown))

HasPrefix(s, prefix) == Len(s) >= Len(prefix) /\ SubSeq(s, 1, Len(prefix)) = prefix

TierScore(id) ==
    IF source_tier = "local" THEN probabilities.p[id]
    ELSE 15 * Min(5, KeywordHits(id))

RankedScore(c) ==
    IF source_tier = "local" THEN c.confidence ELSE 15 * Len(c.matched_keywords)

Listed(id) == \E i \in DOMAIN results : results[i].sdg_number = id

(***************************************************************************)
(* C19: among SDGs with equal scores the one with the smaller id is placed *)
(* first and is the one that survives the cut to top_k, in the local tier  *)
(* as in the rule-based tier.                                              *)
(***************************************************************************)
C19_TieSmallerIdFirst ==
    (Returned /\ source_tier \in {"local", "rule_based"}) =>
        /\ \A i, j \in DOMAIN results :
              (i < j /\ RankedScore(results[i]) = RankedScore(results[j])) =>
                  results[i].sdg_number < results[j].sdg_number
        /\ \A i \in DOMAIN results, id \in SDG_IDS :
              (~Listed(id) /\ TierScore(id) = RankedScore(results[i])) =>
                  results[i].sdg_number < id

\* position of keyword kw in the declared keyword list of SDG id
DeclaredAt(id, kw) == CHOOSE j \in DOMAIN KeywordTable[id] : KeywordTable[id][j] = kw

(***************************************************************************)
(* C20: the keyword match of an SDG returns at most five keywords, each of *)
(* them a keyword of that SDG, in the order the SDG declares them and      *)
(* without duplicates, each a substring of the normalized text; for an id  *)
(* outside 1..17 it returns the empty sequence.                            *)
(***************************************************************************)
C20_KeywordMatch ==
    probe.applied =>
        LET m == probe.matched
            id == probe.sdg_number
            normalized == _preprocess_text(text)
        IN  /\ Len(m) <= 5
            /\ id \notin 1..17 => m = <<>>
            /\ id \in 1..17 =>
                  /\ \A i \in DOMAIN m :
                        /\ \E j \in DOMAIN KeywordTable[id] : KeywordTable[id][j] = m[i]
                        /\ Contains(normalized, m[i])
                  /\ \A i, j \in DOMAIN m :
                        i < j => DeclaredAt(id, m[i]) < DeclaredAt(id, m[j])

\* six keywords of SDG 6 occur in a text with capitals and punctuation: the
\* first five came back
C20_Witness ==
    /\ probe.applied
    /\ probe.sdg_number = 6
    /\ Len(probe.matched) = 5
    /\ KeywordHits(6) = 6
    /\ text # Lower(text)

\* the part of an explanation after "Key indicators: "
Indicators(e) ==
    LET at == Find(e, "Key indicators: ")
    IN  IF at = 0 THEN "" ELSE SubSeq(e, at + Len("Key indicators: "), Len(e))

(***************************************************************************)
(* C21: the explanation says "Strong alignment" exactly when the           *)
(* confidence is at least 0.70, "Moderate alignment" exactly when it is at *)
(* least 0.40 and below 0.70, "Weak alignment" otherwise; the indicators   *)
(* it lists are the first three matched keywords, or "general terms" when  *)
(* no keyword matched.                                                     *)
(***************************************************************************)
C21_ExplanationBands ==
    probe.applied =>
        LET e == probe.explanation
            c == probe.confidence
            m == MatchKeywords(LOADER_SDG_KEYWORDS, text, probe.sdg_number)
        IN  /\ HasPrefix(e, "Strong alignment with SDG ") <=> c >= 70
            /\ HasPrefix(e, "Moderate alignment with SDG ") <=> (c >= 40 /\ c < 70)
            /\ HasPrefix(e, "Weak alignment with SDG ") <=> c < 40
            /\ Indicators(e) = IF m = <<>> THEN "general terms"
                               ELSE Join(SubSeq(m, 1, Min(3, Len(m))))

\* at the limit 0.70 with more than three matched keywords: Strong, and three
\* indicators
C21_Witness ==
    /\ probe.applied
    /\ probe.confidence = 70
    /\ Len(probe.matched) > 3
    /\ HasPrefix(probe.explanation, "Strong alignment with SDG 6. Key indicators: ")
    /\ Indicators(probe.explanation) = Join(SubSeq(probe.matched, 1, 3))

\* what load_models leaves in the loader for the artifact on disk
FullyLoaded ==
    LET body == load_models_body(artifact)
    IN  IF body.exc = "none" THEN <<body.sdg_model, body.vectorizer>>
        ELSE <<"None", "None">>

(***************************************************************************)
(* C22: the local model artifact is loaded at most once and the load is    *)
(* over before a request is served: with requests handled at the same      *)
(* time, no second load starts and every request reads the model and the   *)
(* vectorizer of the completed load, never a half-loaded pair.             *)
(***************************************************************************)
C22_LoadOnce ==
    /\ loads <= 1
    /\ \A w \in Workers :
          /\ workers[w].pc # "idle" => (pc = "serving" /\ loads = 1)
          /\ workers[w].pc = "answered" =>
                <<workers[w].sdg_model, workers[w].vectorizer>> = FullyLoaded

\* two requests served at the same time on a {model, vectorizer} artifact,
\* both having read the classifier and the vectorizer
C22_Witness ==
    /\ artifact = "dict"
    /\ loads = 1
    /\ \A w \in Workers :
          /\ workers[w].pc = "answered"
          /\ workers[w].sdg_model = "classifier"
          /\ workers[w].vectorizer = "tfidf"

\* a step of a classification call: any step but the load at start-up
CallStep == pc \notin {"boot", "hfp_boot"}

\* what the remote tier yields from the answer the call received
RemoteYield ==
    IF deployment = "index" THEN HfTryBody(response, text, top_k, "index").value
    ELSE predict_with_hf_api(response, text, top_k).value.list

\* the returned list is the yield of the answering tier, computed from the
\* text and top_k of the call and from the answers it received
OwnInputsOnly ==
    Returned =>
        results = CASE source_tier = "remote" -> RemoteYield
                    [] source_tier = "local" ->
                          local_results(probabilities.p, top_k, probabilities.tie, text)
                    [] OTHER ->
                          IF deployment = "index" THEN fallback_prediction(text, top_k)
                          ELSE _fallback_prediction(text, top_k)

C24_CapNeverReached ==
    (Returned /\ source_tier = "rule_based") =>
        \A i \in DOMAIN results :
            LET uncapped == 15 * Len(results[i].matched_keywords)
            IN  /\ results[i].confidence \in {15, 30, 45, 60, 75}
                /\ results[i].confidence = uncapped
                /\ uncapped < 80
                /\ Min(85, uncapped) = Min(80, uncapped)

\* api/index.py on a text with six keywords of SDG 6: five are matched and
\* the confidence is 0.75, below the cap
C24_Witness ==
    /\ Returned
    /\ source_tier = "rule_based"
    /\ deployment = "index"
    /\ results[1].sdg_number = 6
    /\ KeywordHits(6) = 6
    /\ results[1].confidence = 75

\* no call of download_model is between its first and its last statement
NoDownloadUnderWay ==
    \A c \in Callers : download.callers[c].pc \in {"idle", "returned"}

(***************************************************************************)
(* C25: download_model returns True only when the file at the model path   *)
(* is completely downloaded and verified, and a call that returned False   *)
(* leaves no partial or unverified file at that path once no call is under *)
(* way, so that no later or concurrent call reports success on a truncated *)
(* file.                                                                   *)
(***************************************************************************)
C25_TrueOnlyIfVerified ==
    \A c \in Callers :
        /\ download.callers[c].result = "True" =>
              VerificationPasses(download.file, download.remote_valid)
        /\ (download.callers[c].result = "False" /\ NoDownloadUnderWay) =>
              (~download.file.exists
               \/ VerificationPasses(download.file, download.remote_valid))

\* the specified post-processing of a probability vector: drop the entries
\* below 0.05, sort the rest by descending probability (equal ones by
\* ascending SDG id), keep at most k; as (id, probability) pairs
SpecifiedPostProcessing(p, k) ==
    LET all == [i \in DOMAIN p |-> <<i, p[i]>>]
        AboveFloor(item) == item[2] >= 5
    IN  Take(SortedDesc(SelectSeq(all, AboveFloor)), k)

(***************************************************************************)
(* C26: for every probability vector and top_k the local tier, which takes *)
(* the top_k highest probabilities and then drops those below 0.05,        *)
(* returns the candidates of the specified post-processing (drop below     *)
(* 0.05, sort descending, keep at most top_k) in the same order, and it    *)
(* goes on to the rule-based tier exactly when no probability reaches      *)
(* 0.05.                                                                   *)
(***************************************************************************)
C26_OrderOfSteps ==
    probabilities.kind = "probs" =>
        LET specified == SpecifiedPostProcessing(probabilities.p, top_k)
            yield == tier_yield["local"]
        IN  /\ Len(yield) = Len(specified)
            /\ \A i \in DOMAIN yield :
                  /\ yield[i].sdg_number = specified[i][1]
                  /\ yield[i].confidence = specified[i][2]
            /\ (pc = "rule" \/ WasInvoked("rule_based")) <=>
                  (\A i \in DOMAIN probabilities.p : probabilities.p[i] < 5)

====
